---- MODULE Spec2Model ----
(***************************************************************************)
(* A model of moosey-cms: the secure path resolver, the template           *)
(* resolution search, the cache layer with its debounced clear, the        *)
(* live-reload connection manager, the on-change callback and the          *)
(* catch-all content route.                                                *)
(*                                                                         *)
(* Strings are sequences of one-character strings.  The alphabet is kept   *)
(* small: "/" and "." are the characters the code treats specially, "NUL"  *)
(* stands for the null byte, and the letters stand for ordinary            *)
(* characters.                                                             *)
(***************************************************************************)
EXTENDS Naturals, Integers, Sequences, FiniteSets, TLC

VARIABLES
    \* --- secure path resolver (helpers.py get_secure_target) ---
    user_path,          \* the user-supplied path string
    relative_to_path,   \* the root directory (a sequence of path segments)
    links,              \* the symlinks of the filesystem: a set of [at, to]
    os_error,           \* whether the platform refuses the path (OSError)
    secure_out,         \* the outcome of the call: [kind, path]
    \* --- template resolution (helpers.py find_best_template) ---
    templates,          \* the names of the templates that exist
    path_str,           \* the clean relative path of the request
    is_index_file,      \* whether a directory index is rendered
    template_out,       \* the template name returned, <<>> before the call
    \* --- cache layer (cache.py) ---
    cache,              \* the main TTLCache: [key, val] entries, oldest first
    hist,               \* the calls made so far, with the clears and expiries
    ncalls,             \* the number of wrapped calls made so far
    \* --- file watcher callback (main.py on_change_callback, cache.py) ---
    now,                \* the clock, in seconds
    debounce,           \* the 5-second TTLCache: [key, exp] entries
    cb_pc,              \* per watcher: "idle", or "cleared" after step 1
    loop_state,         \* the event loop: "created", "running" or "closed"
    scheduled,          \* the reload broadcasts scheduled onto the loop
    clears,             \* the clears clear_cache_on_file_change has done
    nevents,            \* the file-change events delivered so far
    last_trigger,       \* per pair: when a notification last cleared, or -1
    stale,              \* per watcher: keys cached before its event, still cached
    \* --- live-reload connections (main.py ConnectionManager) ---
    active_connections, \* the list of registered websockets
    ws_pc,              \* per websocket: where its endpoint stands
    bc_pc,              \* per broadcast call: "idle", "sending" or "done"
    bc_snapshot,        \* per broadcast call: the copy it iterates over
    bc_idx,             \* per broadcast call: the position of its iteration
    bc_start,           \* per broadcast call: the active set when it started
    bc_ok,              \* per broadcast call: the websockets its send reached
    bc_failed,          \* per broadcast call: the websockets its send failed on
    bc_added,           \* per broadcast call: the websockets appended meanwhile
    bc_removed,         \* per broadcast call: the websockets others removed meanwhile
    \* --- catch-all route (main.py catch_all) ---
    content_tree,       \* the content directory: [dirs, files, unreadable]
    broken,             \* the templates that exist but do not compile
    full_path,          \* the path of the last request
    response,           \* the outcome of the last request
    nrequests,          \* the number of requests served so far
    \* --- navigation and breadcrumbs (helpers.py) ---
    listed_folder,      \* the folder get_directory_navigation lists
    page_url,           \* the URL of the page the navigation is built for
    list_error,         \* whether listing the folder raises OSError
    nav_out,            \* what get_directory_navigation returned
    crumbs_url,         \* the URL get_breadcrumbs is called with
    crumbs_out,         \* what get_breadcrumbs returned
    \* --- bootstrap (main.py init_cms) ---
    boot_config,        \* the arguments of init_cms, field by field
    boot_pc,            \* where init_cms stands
    app_state,          \* whether site_code and site_data are on app.state
    middleware,         \* whether the script-injection middleware is installed
    watched,            \* the directories a watcher was started for
    routes,             \* whether the routes are registered
    \* --- a wrapped call against a clear from the watcher thread (cache.py) ---
    w_pc,               \* where the wrapper of cache_fn stands
    w_key,              \* the key the wrapper built
    w_out,              \* what the wrapper returned or raised
    clear_pc            \* whether a clear is under way on the watcher thread

pathVars == <<user_path, relative_to_path, links, os_error, secure_out>>
tplVars == <<templates, path_str, is_index_file, template_out>>
cacheVars == <<cache, hist, ncalls>>
watchVars == <<now, debounce, cb_pc, loop_state, scheduled, clears, nevents,
               last_trigger, stale>>

wsVars == <<active_connections, ws_pc, bc_pc, bc_snapshot, bc_idx, bc_start,
            bc_ok, bc_failed, bc_added, bc_removed>>
routeVars == <<content_tree, broken, full_path, response, nrequests>>

helperVars == <<listed_folder, page_url, list_error, nav_out, crumbs_url,
                crumbs_out>>
bootVars == <<boot_config, boot_pc, app_state, middleware, watched, routes>>
raceVars == <<w_pc, w_key, w_out, clear_pc>>

vars == <<pathVars, tplVars, cacheVars, watchVars, wsVars, routeVars,
          helperVars, bootVars, raceVars>>

(***************************************************************************)
(* Bounds.                                                                 *)
(***************************************************************************)
MaxLen == 5
MaxTplLen == 5
MaxCalls == 3
MaxTime == 6
MaxEvents == 3
MaxConns == 3
MaxUrlLen == 3
MaxRequests == 2
MaxCrumbLen == 6

(***************************************************************************)
(* Strings.                                                                *)
(***************************************************************************)
NUL == "NUL"

PathChars == {"/", ".", "a", NUL}

StrOver(chars, n) == UNION {[1..k -> chars] : k \in 0..n}

RECURSIVE LStrip(_)
LStrip(s) == IF s # <<>> /\ Head(s) = "/" THEN LStrip(Tail(s)) ELSE s

RECURSIVE RStrip(_)
RStrip(s) ==
    IF s # <<>> /\ s[Len(s)] = "/" THEN RStrip(SubSeq(s, 1, Len(s) - 1)) ELSE s

\* str.strip("/"): every leading and every trailing slash is removed
Strip(s) == RStrip(LStrip(s))

RECURSIVE SplitAcc(_, _, _)
SplitAcc(s, cur, acc) ==
    IF s = <<>> THEN Append(acc, cur)
    ELSE IF Head(s) = "/" THEN SplitAcc(Tail(s), <<>>, Append(acc, cur))
    ELSE SplitAcc(Tail(s), Append(cur, Head(s)), acc)

\* str.split("/"): the segments between slashes, empty ones included
Split(s) == SplitAcc(s, <<>>, <<>>)

RECURSIVE Filter(_, _)
Filter(seq, drop) ==
    IF seq = <<>> THEN <<>>
    ELSE IF Head(seq) \in drop THEN Filter(Tail(seq), drop)
    ELSE <<Head(seq)>> \o Filter(Tail(seq), drop)

\* whether sub occurs in s as a contiguous substring
Contains(s, sub) ==
    \E i \in 1..(Len(s) + 1) :
        /\ i + Len(sub) - 1 <= Len(s)
        /\ SubSeq(s, i, i + Len(sub) - 1) = sub

IsPrefix(p, q) == Len(p) <= Len(q) /\ SubSeq(q, 1, Len(p)) = p

Dot == <<".">>
DotDot == <<".", ".">>

(***************************************************************************)
(* The filesystem seen by Path.resolve(): absolute paths are sequences of  *)
(* segments below "/", and some of them are symlinks.                      *)
(***************************************************************************)
RootA == << <<"a">> >>
RootAA == << <<"a">>, <<"a">> >>
FsRoot == <<>>

Roots == {RootA, RootAA}

\* the places where the model may put a symlink, and where it may point
LinkSites == {RootAA, << <<"a">>, <<".", "a">> >>}
LinkTargets == {FsRoot, RootA, << <<"a">>, <<"a", "a">> >>}

\* the filesystems: every link site is a symlink to one target, or no symlink
LinkSets ==
    {ls \in SUBSET [at : LinkSites, to : LinkTargets] :
        \A l1, l2 \in ls : l1.at = l2.at => l1 = l2}

IsLink(ls, p) == \E l \in ls : l.at = p
LinkTarget(ls, p) == (CHOOSE l \in ls : l.at = p).to

\* relative_to_path / clean_path: pathlib drops empty and "." segments
PathJoin(root, s) == root \o Filter(Split(s), {<<>>, Dot})

\* os.path.realpath, non-strict: ".." steps to the physical parent, a symlink
\* is replaced by its target, a missing component is kept as it is
RECURSIVE RealPath(_, _, _)
RealPath(ls, todo, cur) ==
    IF todo = <<>> THEN cur
    ELSE LET seg == Head(todo)
             nxt == Append(cur, seg)
         IN  IF seg = DotDot
             THEN RealPath(ls, Tail(todo),
                           IF cur = <<>> THEN <<>>
                           ELSE SubSeq(cur, 1, Len(cur) - 1))
             ELSE IF IsLink(ls, nxt)
             THEN RealPath(ls, Tail(todo), LinkTarget(ls, nxt))
             ELSE RealPath(ls, Tail(todo), nxt)

Resolve(ls, parts) == RealPath(ls, parts, <<>>)

\* Path.is_relative_to: a comparison of the segments, nothing is resolved
IsRelativeTo(p, root) == IsPrefix(root, p)

ValueError == [kind |-> "ValueError", path |-> <<>>]
Returned(p) == [kind |-> "ok", path |-> p]
NotCalled == [kind |-> "none", path |-> <<>>]

\* a resolver that forgets the jail check
get_secure_target_nojail(ls, oserr, path, root) ==
    IF NUL \in {path[i] : i \in 1..Len(path)} THEN ValueError
    ELSE IF oserr THEN ValueError
    ELSE Returned(Resolve(ls, PathJoin(root, Strip(path))))

\* a resolver that forgets the null-byte check
get_secure_target_nonul(ls, oserr, path, root) ==
    LET resolved_path == Resolve(ls, PathJoin(root, Strip(path)))
    IN  IF oserr THEN ValueError
        ELSE IF ~IsRelativeTo(resolved_path, root) THEN ValueError
        ELSE Returned(resolved_path)

get_secure_target(ls, oserr, path, root) ==
    IF NUL \in {path[i] : i \in 1..Len(path)} THEN ValueError
    ELSE LET clean_path == Strip(path)
             naive_path == PathJoin(root, clean_path)
             resolved_path == Resolve(ls, naive_path)
         IN  IF oserr THEN ValueError
             ELSE IF ~IsRelativeTo(resolved_path, root) THEN ValueError
             ELSE Returned(resolved_path)

(***************************************************************************)
(* Template resolution.  A path is a string over "/" and a few words; a    *)
(* word stands for a run of ordinary characters.  "posts" is a plural      *)
(* whose singular is "post"; "my-story" has no other singular.             *)
(***************************************************************************)
TplChars == {"/", "posts", "my-story"}

Html == <<".html">>

RECURSIVE JoinSlash(_)
\* "/".join(parts)
JoinSlash(parts) ==
    IF parts = <<>> THEN <<>>
    ELSE IF Len(parts) = 1 THEN parts[1]
    ELSE parts[1] \o <<"/">> \o JoinSlash(Tail(parts))

\* inflection.singularize on the words of the model: a trailing plural is
\* replaced by its singular, every other word is returned as it is
singularize(word) ==
    IF word # <<>> /\ word[Len(word)] = "posts"
    THEN SubSeq(word, 1, Len(word) - 1) \o <<"post">>
    ELSE word

IndexHtml == <<"index">> \o Html
PageHtml == <<"page">> \o Html

TemplateNames ==
    { IndexHtml, PageHtml,
      <<"posts">> \o Html, <<"post">> \o Html, <<"my-story">> \o Html,
      <<"posts", "/", "my-story">> \o Html,
      <<"posts", "/", "post">> \o Html,
      <<"posts", "/", "posts">> \o Html }

\* templates.get_template(name) finds the template or raises TemplateNotFound
template_exists(tpls, name) == name \in tpls

\* the parent search with the section template tried before the item template
RECURSIVE ParentSearchSectionFirst(_, _, _)
ParentSearchSectionFirst(tpls, parts, is_index) ==
    IF Len(parts) = 0 THEN PageHtml
    ELSE LET current_folder == parts[Len(parts)]
             parent_path == SubSeq(parts, 1, Len(parts) - 1)
             singular_candidate ==
                 JoinSlash(Append(parent_path, singularize(current_folder))) \o Html
             plural_candidate == JoinSlash(parts) \o Html
         IN  IF template_exists(tpls, plural_candidate) THEN plural_candidate
             ELSE IF ~is_index /\ template_exists(tpls, singular_candidate)
             THEN singular_candidate
             ELSE ParentSearchSectionFirst(tpls, parent_path, is_index)

\* the parent search that tries the item template for index renders too
RECURSIVE ParentSearchAlwaysItem(_, _, _)
ParentSearchAlwaysItem(tpls, parts, is_index) ==
    IF Len(parts) = 0 THEN PageHtml
    ELSE LET current_folder == parts[Len(parts)]
             parent_path == SubSeq(parts, 1, Len(parts) - 1)
             singular_candidate ==
                 JoinSlash(Append(parent_path, singularize(current_folder))) \o Html
             plural_candidate == JoinSlash(parts) \o Html
         IN  IF template_exists(tpls, singular_candidate) THEN singular_candidate
             ELSE IF template_exists(tpls, plural_candidate) THEN plural_candidate
             ELSE ParentSearchAlwaysItem(tpls, parent_path, is_index)

\* step 2 of find_best_template, the while loop
RECURSIVE ParentSearch(_, _, _)
ParentSearch(tpls, parts, is_index) ==
    IF Len(parts) = 0 THEN PageHtml
    ELSE LET current_folder == parts[Len(parts)]
             parent_path == SubSeq(parts, 1, Len(parts) - 1)
             singular_candidate ==
                 JoinSlash(Append(parent_path, singularize(current_folder))) \o Html
             plural_candidate == JoinSlash(parts) \o Html
         IN  IF ~is_index /\ template_exists(tpls, singular_candidate)
             THEN singular_candidate
             ELSE IF template_exists(tpls, plural_candidate) THEN plural_candidate
             ELSE ParentSearch(tpls, parent_path, is_index)

find_best_template(tpls, path, is_index) ==
    LET parts == Filter(Split(Strip(path)), {<<>>})
        candidate == JoinSlash(parts) \o Html
    IN  IF Len(parts) = 0 /\ template_exists(tpls, IndexHtml) THEN IndexHtml
        ELSE IF ~is_index
        THEN IF template_exists(tpls, candidate) THEN candidate
             ELSE ParentSearch(tpls,
                               IF parts # <<>>
                               THEN SubSeq(parts, 1, Len(parts) - 1) ELSE parts,
                               is_index)
        ELSE ParentSearch(tpls, parts, is_index)

(***************************************************************************)
(* The cache layer.  A Python value is a record [t, n, items]: a scalar    *)
(* holds n; a dict, list, set or tuple holds its items in iteration order, *)
(* each [k, v] (k is the key of a dict item and 0 otherwise).              *)
(***************************************************************************)
Scalar(n) == [t |-> "scalar", n |-> n, items |-> <<>>]
Item(k, v) == [k |-> k, v |-> v]
DictOf(its) == [t |-> "dict", n |-> 0, items |-> its]
ListOf(vals) ==
    [t |-> "list", n |-> 0, items |-> [i \in 1..Len(vals) |-> Item(0, vals[i])]]
TupleOf(vals) ==
    [t |-> "tuple", n |-> 0, items |-> [i \in 1..Len(vals) |-> Item(0, vals[i])]]

\* the tuple (k, v) of dict.items()
PairOf(k, v) == TupleOf(<<Scalar(k), v>>)
PairKey(pair) == pair.items[1].v.n

\* sorted(): the pairs in the order of their keys (the keys of a dict differ,
\* so the comparison never reaches the values)
RECURSIVE InsertSorted(_, _)
InsertSorted(pair, sorted) ==
    IF sorted = <<>> THEN <<pair>>
    ELSE IF PairKey(pair) <= PairKey(Head(sorted)) THEN <<pair>> \o sorted
    ELSE <<Head(sorted)>> \o InsertSorted(pair, Tail(sorted))

RECURSIVE Sorted(_)
Sorted(pairs) ==
    IF pairs = <<>> THEN <<>> ELSE InsertSorted(Head(pairs), Sorted(Tail(pairs)))

\* a make_hashable that keeps the insertion order of a dict
RECURSIVE make_hashable_unsorted(_)
make_hashable_unsorted(value) ==
    IF value.t = "dict"
    THEN TupleOf([i \in 1..Len(value.items) |->
                     PairOf(value.items[i].k, make_hashable_unsorted(value.items[i].v))])
    ELSE IF value.t \in {"list", "set"}
    THEN TupleOf([i \in 1..Len(value.items) |-> make_hashable_unsorted(value.items[i].v)])
    ELSE value

RECURSIVE make_hashable(_)
make_hashable(value) ==
    IF value.t = "dict"
    THEN TupleOf(Sorted([i \in 1..Len(value.items) |->
                            PairOf(value.items[i].k, make_hashable(value.items[i].v))]))
    ELSE IF value.t \in {"list", "set"}
    THEN TupleOf([i \in 1..Len(value.items) |-> make_hashable(value.items[i].v)])
    ELSE value

\* hashkey(*safe_args): the tuple of the normalized arguments, and nothing
\* that names the wrapped function
hashkey(args) == [i \in 1..Len(args) |-> make_hashable(args[i])]

\* key in cache, cache[key]
InCache(c, key) == \E i \in 1..Len(c) : c[i].key = key
CacheGet(c, key) == c[CHOOSE i \in 1..Len(c) : c[i].key = key].val

\* cache[key] = result: a new entry expires last
CacheSet(c, key, val) ==
    LET others == SelectSeq(c, LAMBDA e : e.key # key)
    IN  Append(others, [key |-> key, val |-> val])

\* the wrapper of cache_fn: what it returns, whether it ran the wrapped
\* function, and the cache it leaves; result is what the wrapped function
\* returns when it is run
wrapper(c, args, result) ==
    LET key == hashkey(args)
    IN  IF InCache(c, key)
        THEN [ret |-> CacheGet(c, key), invoked |-> FALSE, cache |-> c]
        ELSE [ret |-> result, invoked |-> TRUE, cache |-> CacheSet(c, key, result)]

\* clear_cache
clear_cache(c) == <<>>

\* the wrapped functions of the model and what they may return: the result
\* names the function and the state of the world it read
Fns == {"f", "g"}
Versions == {1, 2}
ResultOf(fn, ver) == <<fn, ver>>

S1 == Scalar(1)
S2 == Scalar(2)
D12 == DictOf(<<Item(1, S1), Item(2, S2)>>)
D21 == DictOf(<<Item(2, S2), Item(1, S1)>>)
L12 == ListOf(<<S1, S2>>)
L21 == ListOf(<<S2, S1>>)
N12 == DictOf(<<Item(1, D12), Item(2, L12)>>)
N21 == DictOf(<<Item(2, L12), Item(1, D21)>>)

\* the arguments of the calls
ArgVals == {N12, N21, L12, L21}

(***************************************************************************)
(* The debounced clear and the on-change callback.  init_cms starts one    *)
(* watcher per configured directory; each delivers its events one at a     *)
(* time from its own thread.                                               *)
(***************************************************************************)
Watchers == {"content", "templates"}

\* the (path, event type) pairs a watcher may report
PairsOf(w) ==
    IF w = "content"
    THEN {<<"content/a.md", "modified">>, <<"content/a.md", "deleted">>}
    ELSE {<<"templates/page.html", "modified">>}

Pairs == UNION {PairsOf(w) : w \in Watchers}

\* TTLCache(maxsize=100, ttl=5)
DebounceTTL == 5
DebounceMaxSize == 100

\* TTLCache.__contains__: an entry counts while timer() < expires
Live(d, key, t) == \E i \in 1..Len(d) : d[i].key = key /\ t < d[i].exp

\* a membership test that still counts an entry at the instant it expires
LiveInclusive(d, key, t) == \E i \in 1..Len(d) : d[i].key = key /\ t <= d[i].exp

\* TTLCache.__setitem__: expired entries are dropped, the entry is (re)placed
TtlSet(d, key, t, ttl) ==
    Append(SelectSeq(d, LAMBDA e : t < e.exp /\ e.key # key),
           [key |-> key, exp |-> t + ttl])

\* a debounce that still suppresses at the instant the entry expires
clear_cache_on_file_change_late(d, c, pair, t) ==
    IF LiveInclusive(d, pair, t)
    THEN [debounce |-> d, cache |-> c, cleared |-> FALSE]
    ELSE [debounce |-> TtlSet(d, pair, t, DebounceTTL),
          cache |-> clear_cache(c), cleared |-> TRUE]

\* clear_cache_on_file_change under @cached: a live entry for the pair
\* returns at once, otherwise clear_cache() runs and the pair is stored
clear_cache_on_file_change(d, c, pair, t) ==
    IF Live(d, pair, t)
    THEN [debounce |-> d, cache |-> c, cleared |-> FALSE]
    ELSE [debounce |-> TtlSet(d, pair, t, DebounceTTL),
          cache |-> clear_cache(c), cleared |-> TRUE]

\* a callback that schedules the broadcast whatever the loop does
schedule_always(state, n) == n + 1

\* if loop.is_running(): asyncio.run_coroutine_threadsafe(...)
schedule_broadcast(state, n) == IF state = "running" THEN n + 1 ELSE n

Keys(c) == {c[i].key : i \in 1..Len(c)}

(***************************************************************************)
(* The connection manager.  Websockets are numbered; every broadcast call  *)
(* is a task of the serving loop that yields at each send.                 *)
(***************************************************************************)
Conns == 1..MaxConns
Broadcasts == {"b1", "b2"}

Range(seq) == {seq[i] : i \in 1..Len(seq)}

\* list.remove: the first occurrence is taken out
RECURSIVE RemoveFirst(_, _)
RemoveFirst(list, x) ==
    IF list = <<>> THEN <<>>
    ELSE IF Head(list) = x THEN Tail(list)
    ELSE <<Head(list)>> \o RemoveFirst(Tail(list), x)

\* a disconnect that leaves the list as it is
disconnect_noop(list, websocket) == list

\* ConnectionManager.disconnect
disconnect(list, websocket) ==
    IF websocket \in Range(list) THEN RemoveFirst(list, websocket) ELSE list

\* a broadcast that walks the live list instead of a copy
iteration_list_live(snapshot, live) == live

\* for connection in self.active_connections[:]: the list the loop walks
iteration_list(snapshot, live) == snapshot

(***************************************************************************)
(* The catch-all route.  The content directory is a small tree of          *)
(* directories and markdown files; a template compiles, is broken, or is   *)
(* missing.  The arguments of the cached calls are values [t, n, items]    *)
(* whose items are sequences of words, so that any two keys compare.       *)
(***************************************************************************)
RouteChars == {"/", ".", "posts", "my-story"}

\* the forms of full_path that are requested: the root, the pages and
\* directories of the content trees with and without slashes around them,
\* names that nothing carries, and paths through "." and ".."
UrlForms ==
    { <<>>, <<"/">>, <<".">>, <<".", ".">>,
      <<"posts">>, <<"posts", "/">>, <<"/", "posts">>, <<"my-story">>,
      <<"posts", "/", "my-story">>, <<"posts", "/", "posts">>,
      <<"posts", "/", ".">>, <<"my-story", "/", "posts">>,
      <<"/", "posts", "/", "my-story">>, <<"posts", "/", "my-story", "/">>,
      <<".", ".", "/", "posts">>, <<"posts", "/", ".", ".">>,
      <<"posts", "/", "/", "my-story">> }

Md == <<".md">>
IndexMd == <<"index">> \o Md
ContentDir == << <<"content">> >>
PostsDir == Append(ContentDir, <<"posts">>)
RootIndexFile == Append(ContentDir, IndexMd)
PostsIndexFile == Append(PostsDir, IndexMd)
StoryFile == Append(PostsDir, <<"my-story">> \o Md)
PostsFile == Append(ContentDir, <<"posts">> \o Md)

\* The strings of a document are sequences of words.  Two words are template
\* expressions: one that renders to the site's name and one whose evaluation
\* raises.
SiteName == "{{ site_data.name }}"
DivByZero == "{{ 1/0 }}"
Fails(content) == DivByZero \in Range(content)
Render(content) ==
    [i \in 1..Len(content) |-> IF content[i] = SiteName THEN "Moosey" ELSE content[i]]

\* the files of the model as frontmatter.load reads them: the title of the
\* front matter and the HTML of the body
Documents ==
    [f \in {RootIndexFile, PostsIndexFile, StoryFile, PostsFile} |->
        IF f = RootIndexFile THEN [title |-> <<"Home">>, html |-> <<"welcome">>]
        ELSE IF f = PostsIndexFile THEN [title |-> <<>>, html |-> <<"by", SiteName>>]
        ELSE IF f = StoryFile THEN [title |-> <<"A", DivByZero>>, html |-> <<SiteName>>]
        ELSE [title |-> <<SiteName>>, html |-> <<DivByZero>>]]

ContentTrees ==
    { [dirs |-> {ContentDir}, files |-> {}, unreadable |-> {}],
      [dirs |-> {ContentDir}, files |-> {RootIndexFile, PostsFile},
       unreadable |-> {}],
      [dirs |-> {ContentDir, PostsDir},
       files |-> {RootIndexFile, PostsIndexFile, StoryFile},
       unreadable |-> {StoryFile}],
      [dirs |-> {ContentDir, PostsDir}, files |-> {StoryFile, PostsFile},
       unreadable |-> {}] }

NotFoundHtml == <<"404">> \o Html
RequiredTemplates == {NotFoundHtml, IndexHtml, PageHtml}
OptionalTemplates == {<<"posts">> \o Html, <<"post">> \o Html}

\* the template directories of the model: the required templates with any
\* optional ones, of which one may be broken, and two directories that lack
\* a required template
TemplateStates ==
    { [ok |-> (RequiredTemplates \cup o) \ b, broken |-> b] :
          o \in SUBSET OptionalTemplates,
          b \in {{}} \cup {{n} : n \in OptionalTemplates} }
    \cup { [ok |-> RequiredTemplates \ {n}, broken |-> {}] :
               n \in {NotFoundHtml, PageHtml} }

Obj(name) == [t |-> "object", n |-> 0, items |-> << <<name>> >>]
StrVal(s) == [t |-> "str", n |-> 0, items |-> <<s>>]
PathVal(p) == [t |-> "path", n |-> 0, items |-> p]
BoolVal(b) == [t |-> "bool", n |-> 0, items |-> << <<IF b THEN "True" ELSE "False">> >>]

\* template_data: site_code and site_data with the front matter of the file
DataOf(file, front_matter) ==
    [t |-> "context", n |-> 0, items |-> Append(file, front_matter)]

\* the Jinja2Templates object, and the marker hashkey puts before keywords
TemplatesObj == Obj("templates")
KwMark == Obj("kwmark")

Exception == [kind |-> "Exception", path |-> <<>>]
Raised(result) == result.kind \in {"ValueError", "Exception"}

\* a call through the wrapper of cache_fn of a function that may raise: the
\* exception leaves the wrapper before anything is stored
cached_call(c, args, result) ==
    IF ~InCache(c, hashkey(args)) /\ Raised(result)
    THEN [ret |-> result, cache |-> c]
    ELSE LET w == wrapper(c, args, result)
         IN  [ret |-> w.ret, cache |-> w.cache]

\* parse_markdown_file: frontmatter.load raises on a file it cannot read
parse_markdown_file(tree, file) ==
    IF file \in tree.unreadable THEN Exception
    ELSE [kind |-> "document", path |-> file,
          title |-> Documents[file].title, html |-> Documents[file].html]

\* a rendering that lets the error of the evaluation out
template_render_content_raising(content) ==
    IF content = <<>> THEN [kind |-> "rendered", path |-> <<>>]
    ELSE IF Fails(content) THEN Exception
    ELSE [kind |-> "rendered", path |-> Render(content)]

\* template_render_content: the empty string for empty content, the content
\* itself when the rendering raises
template_render_content(content) ==
    IF content = <<>> THEN [kind |-> "rendered", path |-> <<>>]
    ELSE IF Fails(content) THEN [kind |-> "rendered", path |-> content]
    ELSE [kind |-> "rendered", path |-> Render(content)]

\* front_matter[k] = ...: the metadata of the document object is assigned
\* to; the cache entry that holds the object holds the new value
assign_front_matter(c, key, title) ==
    [i \in 1..Len(c) |->
        IF c[i].key = key THEN [c[i] EXCEPT !.val.title = title] ELSE c[i]]

\* str.title of the words of the model
Title(word) ==
    [i \in 1..Len(word) |->
        IF word[i] = "posts" THEN "Posts"
        ELSE IF word[i] = "my-story" THEN "My Story"
        ELSE IF word[i] = "stories" THEN "Stories"
        ELSE word[i]]

\* breadcrumbs that keep the empty segments of the split
get_breadcrumbs_unfiltered(url_path) ==
    LET parts == Split(Strip(url_path))
    IN  [kind |-> "breadcrumbs",
         crumbs |-> <<[name |-> <<"Home">>, url |-> <<"/">>]>> \o
                    [i \in 1..Len(parts) |->
                        [name |-> Title(parts[i]),
                         url |-> <<"/">> \o JoinSlash(SubSeq(parts, 1, i))]]]

get_breadcrumbs(url_path) ==
    LET parts == Filter(Split(Strip(url_path)), {<<>>})
    IN  [kind |-> "breadcrumbs",
         crumbs |-> <<[name |-> <<"Home">>, url |-> <<"/">>]>> \o
                    [i \in 1..Len(parts) |->
                        [name |-> Title(parts[i]),
                         url |-> <<"/">> \o JoinSlash(SubSeq(parts, 1, i))]]]

\* a hidden file, and a directory beside the file my-story.md
DotDraft == <<".", "draft", ".md">>
MyStoryDir == Append(ContentDir, <<"my-story">>)

\* the entry names of the model in the order of their strings
NameOrder ==
    <<DotDraft, IndexMd, <<"my-story">>, <<"my-story">> \o Md, <<"posts">>,
      <<"posts">> \o Md>>

\* str.replace(".md", "")
StripMd(s) == SelectSeq(s, LAMBDA ch : ch # ".md")

\* a listing ordered by name alone
sorted_by_name(dirnames, filenames) ==
    SelectSeq(NameOrder, LAMBDA n : n \in dirnames \cup filenames)

\* sorted(physical_folder.iterdir(), key=lambda x: (not x.is_dir(), x.name))
sorted_entries(dirnames, filenames) ==
    SelectSeq(NameOrder, LAMBDA n : n \in dirnames) \o
    SelectSeq(NameOrder, LAMBDA n : n \in filenames \ dirnames)

\* get_directory_navigation; oserr: listing the folder raises OSError, which
\* is passed over and leaves the items empty
get_directory_navigation(tree, oserr, physical_folder, current_url, root) ==
    IF physical_folder \notin tree.dirs \/ oserr
    THEN [kind |-> "navigation", items |-> <<>>]
    ELSE LET isdir(n) == Append(physical_folder, n) \in tree.dirs
             isfile(n) == Append(physical_folder, n) \in tree.files
             names == {NameOrder[i] : i \in 1..Len(NameOrder)}
             entries == sorted_entries({n \in names : isdir(n)},
                                       {n \in names : isfile(n)})
             listed(n) ==
                 /\ n[1] # "."
                 /\ n # IndexMd
                 /\ isdir(n) =>
                        Append(Append(physical_folder, n), IndexMd) \in tree.files
                 /\ IsPrefix(root, physical_folder)
             url(n) ==
                 <<"/">> \o StripMd(JoinSlash(
                     SubSeq(Append(physical_folder, n), Len(root) + 1,
                            Len(physical_folder) + 1)))
             shown == SelectSeq(entries, listed)
         IN  [kind |-> "navigation",
              items |-> [i \in 1..Len(shown) |->
                            [name |-> Title(StripMd(shown[i])),
                             url |-> url(shown[i]),
                             is_active |-> url(shown[i]) = current_url,
                             is_dir |-> isdir(shown[i])]]]

\* the arguments of template_exists(templates, name)
ExistsArgs(name) == <<TemplatesObj, StrVal(name)>>

\* the names for which the cache holds an answer of template_exists
CachedNames(c) ==
    {c[i].key[2].items[1] :
        i \in {j \in 1..Len(c) : Len(c[j].key) = 2 /\ c[j].key[1] = TemplatesObj}}

\* the names template_exists reports or would report as existing: the cached
\* answer if there is one, otherwise what get_template finds
ExistingView(c, present) ==
    {n \in present \cup CachedNames(c) :
        IF InCache(c, hashkey(ExistsArgs(n)))
        THEN CacheGet(c, hashkey(ExistsArgs(n))).value
        ELSE n \in present}

\* the names the while loop of find_best_template asks template_exists for
RECURSIVE ParentProbes(_, _, _)
ParentProbes(exists, parts, is_index) ==
    IF Len(parts) = 0 THEN <<>>
    ELSE LET current_folder == parts[Len(parts)]
             parent_path == SubSeq(parts, 1, Len(parts) - 1)
             singular_candidate ==
                 JoinSlash(Append(parent_path, singularize(current_folder))) \o Html
             plural_candidate == JoinSlash(parts) \o Html
             asked == IF is_index THEN <<plural_candidate>>
                      ELSE IF singular_candidate \in exists
                      THEN <<singular_candidate>>
                      ELSE <<singular_candidate, plural_candidate>>
         IN  IF asked[Len(asked)] \in exists THEN asked
             ELSE asked \o ParentProbes(exists, parent_path, is_index)

\* the names find_best_template asks template_exists for, in order
Probes(exists, path, is_index) ==
    LET parts == Filter(Split(Strip(path)), {<<>>})
        candidate == JoinSlash(parts) \o Html
        first == IF Len(parts) = 0 THEN <<IndexHtml>> ELSE <<>>
    IN  IF Len(parts) = 0 /\ IndexHtml \in exists THEN first
        ELSE IF ~is_index
        THEN IF candidate \in exists THEN Append(first, candidate)
             ELSE Append(first, candidate) \o
                  ParentProbes(exists,
                               IF parts # <<>>
                               THEN SubSeq(parts, 1, Len(parts) - 1) ELSE parts,
                               is_index)
        ELSE first \o ParentProbes(exists, parts, is_index)

\* the calls of template_exists for the names asked, through the wrapper
RECURSIVE StoreProbes(_, _, _)
StoreProbes(c, names, present) ==
    IF names = <<>> THEN c
    ELSE StoreProbes(cached_call(c, ExistsArgs(Head(names)),
                                 [kind |-> "bool",
                                  value |-> Head(names) \in present]).cache,
                     Tail(names), present)

\* find_best_template(templates, search_path, is_index_file=is_index) through
\* the wrapper, with its calls of template_exists; get_template of a broken
\* template raises an error that template_exists does not catch
cached_find_best_template(c, tpls, brk, search_path, is_index) ==
    LET args == <<TemplatesObj, StrVal(search_path), KwMark,
                  StrVal(<<"is_index_file">>), BoolVal(is_index)>>
        exists == ExistingView(c, tpls \cup brk)
        probes == Probes(exists, search_path, is_index)
        bad == {i \in 1..Len(probes) :
                   /\ probes[i] \in brk
                   /\ ~InCache(c, hashkey(ExistsArgs(probes[i])))}
    IN  IF InCache(c, hashkey(args))
        THEN [ret |-> CacheGet(c, hashkey(args)), cache |-> c]
        ELSE IF bad # {}
        THEN LET i == CHOOSE x \in bad : \A y \in bad : x <= y
             IN  [ret |-> Exception,
                  cache |-> StoreProbes(c, SubSeq(probes, 1, i - 1), tpls \cup brk)]
        ELSE cached_call(StoreProbes(c, probes, tpls \cup brk), args,
                         [kind |-> "template",
                          name |-> find_best_template(exists, search_path, is_index)])

\* the context of a response that renders no document
NoContext == [title |-> <<>>, content |-> <<>>]

NoResponse ==
    [status |-> "none", template |-> <<>>, file |-> <<>>, is_index |-> FALSE,
     context |-> NoContext]

\* templates.TemplateResponse: a template that is missing or broken raises
TemplateResponse(tpls, name, status, file, is_index, context) ==
    [status |-> IF name \in tpls THEN status ELSE "exception",
     template |-> name, file |-> file, is_index |-> is_index,
     context |-> context]

\* the arguments of get_secure_target(path, relative_to_path=dirs["content"])
SecureArgs(path) ==
    <<StrVal(path), KwMark, StrVal(<<"relative_to_path">>), PathVal(ContentDir)>>

\* catch_all, steps 5 to 8: the document is loaded and rendered, the
\* context is built, the template is found and the page is rendered
render_page(c, tpls, brk, tree, ls, url, clean_path, target_file, is_index) ==
    LET NotFound(c1) ==
            [response |-> TemplateResponse(tpls, NotFoundHtml, "404", <<>>, FALSE,
                                          NoContext),
             cache |-> c1]
        md_data == cached_call(c, <<PathVal(target_file)>>,
                               parse_markdown_file(tree, target_file))
    IN  IF Raised(md_data.ret) THEN NotFound(md_data.cache)
        ELSE LET front_matter == md_data.ret.title
                 template_data == DataOf(target_file, front_matter)
                 title ==
                     cached_call(md_data.cache,
                                 <<TemplatesObj, StrVal(front_matter),
                                   template_data, BoolVal(FALSE)>>,
                                 template_render_content(front_matter))
                 assigned ==
                     assign_front_matter(title.cache,
                                         hashkey(<<PathVal(target_file)>>),
                                         title.ret.path)
                 html_content ==
                     cached_call(assigned,
                                 <<TemplatesObj, StrVal(md_data.ret.html),
                                   template_data, BoolVal(FALSE)>>,
                                 template_render_content(md_data.ret.html))
                 nav_folder == SubSeq(target_file, 1, Len(target_file) - 1)
                 current_url == IF clean_path # <<"index">>
                                THEN <<"/">> \o clean_path ELSE <<"/">>
                 nav_items ==
                     cached_call(html_content.cache,
                                 <<KwMark,
                                   StrVal(<<"current_url">>), StrVal(current_url),
                                   StrVal(<<"physical_folder">>), PathVal(nav_folder),
                                   StrVal(<<"relative_to_path">>), PathVal(ContentDir)>>,
                                 get_directory_navigation(tree, FALSE, nav_folder,
                                                          current_url, ContentDir))
                 breadcrumbs == cached_call(nav_items.cache, <<StrVal(url)>>,
                                            get_breadcrumbs(url))
                 search_path == IF clean_path = <<"index">> THEN <<>> ELSE clean_path
                 template_name ==
                     cached_find_best_template(breadcrumbs.cache, tpls, brk,
                                               search_path, is_index)
             IN  IF Raised(title.ret) THEN NotFound(title.cache)
                 ELSE IF Raised(html_content.ret) THEN NotFound(html_content.cache)
                 ELSE IF Raised(template_name.ret)
                 THEN [response |-> [status |-> "exception", template |-> <<>>,
                                     file |-> target_file, is_index |-> is_index,
                                     context |-> NoContext],
                       cache |-> template_name.cache]
                 ELSE [response |->
                           TemplateResponse(tpls, template_name.ret.name, "200",
                                            target_file, is_index,
                                            [title |-> title.ret.path,
                                             content |-> html_content.ret.path]),
                       cache |-> template_name.cache]

\* a route that takes no path for a directory
is_dir_never(tree, target) == FALSE

\* target_path_base.is_dir()
is_dir(tree, target) == target \in tree.dirs

\* catch_all: the response and the cache it leaves
catch_all(c, tpls, brk, tree, ls, url) ==
    LET NotFound(c1) ==
            [response |-> TemplateResponse(tpls, NotFoundHtml, "404", <<>>, FALSE,
                                          NoContext),
             cache |-> c1]
        clean_path == IF Strip(url) = <<>> THEN <<"index">> ELSE Strip(url)
        target_path_base ==
            cached_call(c, SecureArgs(clean_path),
                        get_secure_target(ls, FALSE, clean_path, ContentDir))
    IN  IF Raised(target_path_base.ret) THEN NotFound(target_path_base.cache)
        ELSE LET is_index == is_dir(tree, target_path_base.ret.path)
                 target_file ==
                     IF is_index
                     THEN [ret |-> Returned(Append(target_path_base.ret.path, IndexMd)),
                           cache |-> target_path_base.cache]
                     ELSE cached_call(target_path_base.cache,
                                      SecureArgs(clean_path \o Md),
                                      get_secure_target(ls, FALSE, clean_path \o Md,
                                                        ContentDir))
             IN  IF Raised(target_file.ret) THEN NotFound(target_file.cache)
                 ELSE IF target_file.ret.path \notin tree.files
                 THEN NotFound(target_file.cache)
                 ELSE render_page(target_file.cache, tpls, brk, tree, ls, url,
                                  clean_path, target_file.ret.path, is_index)

(***************************************************************************)
(* Every subsystem has a specification of its own; the variables of the    *)
(* other subsystems then rest at these values.                             *)
(***************************************************************************)
PathIdle ==
    /\ user_path = <<>>
    /\ relative_to_path = RootA
    /\ links = {}
    /\ os_error = FALSE
    /\ secure_out = NotCalled

TplIdle ==
    /\ templates = {}
    /\ path_str = <<>>
    /\ is_index_file = FALSE
    /\ template_out = <<>>

CacheIdle ==
    /\ cache = <<>>
    /\ hist = <<>>
    /\ ncalls = 0

WatchIdle ==
    /\ now = 0
    /\ debounce = <<>>
    /\ cb_pc = [w \in Watchers |-> "idle"]
    /\ loop_state = "created"
    /\ scheduled = 0
    /\ clears = 0
    /\ nevents = 0
    /\ last_trigger = [k \in Pairs |-> -1]
    /\ stale = [w \in Watchers |-> {}]

WsIdle ==
    /\ active_connections = <<>>
    /\ ws_pc = [c \in Conns |-> "new"]
    /\ bc_pc = [b \in Broadcasts |-> "idle"]
    /\ bc_snapshot = [b \in Broadcasts |-> <<>>]
    /\ bc_idx = [b \in Broadcasts |-> 1]
    /\ bc_start = [b \in Broadcasts |-> {}]
    /\ bc_ok = [b \in Broadcasts |-> {}]
    /\ bc_failed = [b \in Broadcasts |-> {}]
    /\ bc_added = [b \in Broadcasts |-> {}]
    /\ bc_removed = [b \in Broadcasts |-> {}]

HelperIdle ==
    /\ listed_folder = ContentDir
    /\ page_url = <<"/">>
    /\ list_error = FALSE
    /\ nav_out = NotCalled
    /\ crumbs_url = <<>>
    /\ crumbs_out = NotCalled

\* the arguments of init_cms that CMSConfig validates
ConfigFields == {"dirs", "host", "port", "mode", "site_data", "site_code"}

\* the directories a watcher is started for, in the order of the dict
WatchedDirs == <<"content", "templates">>

\* CMSConfig(host=..., port=..., dirs=..., ...): whether the validation
\* passes; it raises otherwise
CMSConfig(config) == \A f \in ConfigFields : config[f] # "invalid"

\* a bootstrap that goes on after a failed validation
after_validation_caught(passed) == "validated"

\* init_cms has no handler around the CMSConfig(...) call: its exception
\* leaves init_cms
after_validation(passed) == IF passed THEN "validated" ELSE "raised"

BootIdle ==
    /\ boot_config = [f \in ConfigFields |-> "valid"]
    /\ boot_pc = "start"
    /\ app_state = FALSE
    /\ middleware = FALSE
    /\ watched = {}
    /\ routes = FALSE

RaceIdle ==
    /\ w_pc = "idle"
    /\ w_key = <<>>
    /\ w_out = <<>>
    /\ clear_pc = "idle"

RouteIdle ==
    /\ content_tree = [dirs |-> {}, files |-> {}, unreadable |-> {}]
    /\ broken = {}
    /\ full_path = <<>>
    /\ response = NoResponse
    /\ nrequests = 0

(***************************************************************************)
(* The resolver applied to every bounded input.                            *)
(***************************************************************************)
InitPath ==
    /\ user_path \in StrOver(PathChars, MaxLen)
    /\ relative_to_path \in Roots
    /\ links \in LinkSets
    /\ os_error \in BOOLEAN
    /\ secure_out = NotCalled
    /\ TplIdle
    /\ CacheIdle
    /\ WatchIdle
    /\ WsIdle
    /\ HelperIdle
    /\ BootIdle
    /\ RaceIdle
    /\ RouteIdle

CallSecureTarget ==
    /\ secure_out = NotCalled
    /\ secure_out' = get_secure_target(links, os_error, user_path, relative_to_path)
    /\ UNCHANGED <<user_path, relative_to_path, links, os_error>>
    /\ UNCHANGED <<tplVars, cacheVars, watchVars, wsVars, routeVars,
                   helperVars, bootVars, raceVars>>

NextPath == CallSecureTarget

SpecPath == InitPath /\ [][NextPath]_vars

(***************************************************************************)
(* The template search applied to every bounded input.                     *)
(***************************************************************************)
InitTpl ==
    /\ templates \in SUBSET TemplateNames
    /\ path_str \in StrOver(TplChars, MaxTplLen)
    /\ is_index_file \in BOOLEAN
    /\ template_out = <<>>
    /\ PathIdle
    /\ CacheIdle
    /\ WatchIdle
    /\ WsIdle
    /\ HelperIdle
    /\ BootIdle
    /\ RaceIdle
    /\ RouteIdle

CallFindBestTemplate ==
    /\ template_out = <<>>
    /\ template_out' = find_best_template(templates, path_str, is_index_file)
    /\ UNCHANGED <<templates, path_str, is_index_file>>
    /\ UNCHANGED <<pathVars, cacheVars, watchVars, wsVars, routeVars,
                   helperVars, bootVars, raceVars>>

NextTpl == CallFindBestTemplate

SpecTpl == InitTpl /\ [][NextTpl]_vars

(***************************************************************************)
(* Calls of wrapped functions over the shared cache.                       *)
(***************************************************************************)
InitCache ==
    /\ CacheIdle
    /\ PathIdle
    /\ TplIdle
    /\ WatchIdle
    /\ WsIdle
    /\ HelperIdle
    /\ BootIdle
    /\ RaceIdle
    /\ RouteIdle

\* a call fn(arg) through the wrapper of cache_fn
CachedCall(fn, arg, ver) ==
    /\ ncalls < MaxCalls
    /\ LET r == wrapper(cache, <<arg>>, ResultOf(fn, ver))
       IN  /\ cache' = r.cache
           /\ hist' = Append(hist, [fn |-> fn, arg |-> arg,
                                    invoked |-> r.invoked, ret |-> r.ret])
    /\ ncalls' = ncalls + 1
    /\ UNCHANGED <<pathVars, tplVars, watchVars, wsVars, routeVars,
                   helperVars, bootVars, raceVars>>

\* what hist records of a clear or an expiry
Marker(what) == [fn |-> what, arg |-> Scalar(0), invoked |-> FALSE, ret |-> <<what, 0>>]

ClearCache ==
    /\ cache # <<>>
    /\ cache' = clear_cache(cache)
    /\ hist' = Append(hist, Marker("clear"))
    /\ UNCHANGED <<ncalls, pathVars, tplVars, watchVars, wsVars, routeVars,
                   helperVars, bootVars, raceVars>>

\* the time-to-live of the oldest entry runs out
ExpireOldest ==
    /\ cache # <<>>
    /\ cache' = Tail(cache)
    /\ hist' = Append(hist, Marker("expire"))
    /\ UNCHANGED <<ncalls, pathVars, tplVars, watchVars, wsVars, routeVars,
                   helperVars, bootVars, raceVars>>

NextCache ==
    \/ \E fn \in Fns, arg \in ArgVals, ver \in Versions : CachedCall(fn, arg, ver)
    \/ ClearCache
    \/ ExpireOldest

SpecCache == InitCache /\ [][NextCache]_vars

(***************************************************************************)
(* The watchers' callback, the clock, the loop and requests that fill the  *)
(* main cache.                                                             *)
(***************************************************************************)
InitWatch ==
    /\ WatchIdle
    /\ CacheIdle
    /\ PathIdle
    /\ TplIdle
    /\ WsIdle
    /\ HelperIdle
    /\ BootIdle
    /\ RaceIdle
    /\ RouteIdle

\* on_change_callback, step 1: clear_cache_on_file_change(file_path, event_type)
OnChangeClear(w, pair) ==
    /\ cb_pc[w] = "idle"
    /\ nevents < MaxEvents
    /\ LET r == clear_cache_on_file_change(debounce, cache, pair, now)
       IN  /\ debounce' = r.debounce
           /\ cache' = r.cache
           /\ clears' = IF r.cleared THEN clears + 1 ELSE clears
           /\ last_trigger' =
                  IF r.cleared THEN [last_trigger EXCEPT ![pair] = now]
                  ELSE last_trigger
           /\ stale' = [x \in Watchers |->
                           IF r.cleared THEN {}
                           ELSE IF x = w THEN Keys(cache) ELSE stale[x]]
    /\ cb_pc' = [cb_pc EXCEPT ![w] = "cleared"]
    /\ nevents' = nevents + 1
    /\ UNCHANGED <<now, loop_state, scheduled, hist, ncalls, pathVars, tplVars, wsVars, routeVars,
                   helperVars, bootVars, raceVars>>

\* on_change_callback, step 2: the broadcast is scheduled if the loop runs
OnChangeBroadcast(w) ==
    /\ cb_pc[w] = "cleared"
    /\ scheduled' = schedule_broadcast(loop_state, scheduled)
    /\ cb_pc' = [cb_pc EXCEPT ![w] = "idle"]
    /\ UNCHANGED <<now, debounce, loop_state, clears, nevents, last_trigger, stale,
                   cacheVars, pathVars, tplVars, wsVars, routeVars,
                   helperVars, bootVars, raceVars>>

\* a request on the serving loop calls a wrapped function
RequestCall(arg) ==
    /\ cache' = wrapper(cache, <<arg>>, ResultOf("f", 1)).cache
    /\ cache' # cache
    /\ UNCHANGED <<hist, ncalls, watchVars, pathVars, tplVars, wsVars, routeVars,
                   helperVars, bootVars, raceVars>>

Tick ==
    /\ now < MaxTime
    /\ now' = now + 1
    /\ UNCHANGED <<debounce, cb_pc, loop_state, scheduled, clears, nevents,
                   last_trigger, stale, cacheVars, pathVars, tplVars, wsVars, routeVars,
                   helperVars, bootVars, raceVars>>

LoopStart ==
    /\ loop_state = "created"
    /\ loop_state' = "running"
    /\ UNCHANGED <<now, debounce, cb_pc, scheduled, clears, nevents,
                   last_trigger, stale, cacheVars, pathVars, tplVars, wsVars, routeVars,
                   helperVars, bootVars, raceVars>>

LoopStop ==
    /\ loop_state = "running"
    /\ loop_state' = "closed"
    /\ UNCHANGED <<now, debounce, cb_pc, scheduled, clears, nevents,
                   last_trigger, stale, cacheVars, pathVars, tplVars, wsVars, routeVars,
                   helperVars, bootVars, raceVars>>

NextWatch ==
    \/ \E w \in Watchers : \E pair \in PairsOf(w) : OnChangeClear(w, pair)
    \/ \E w \in Watchers : OnChangeBroadcast(w)
    \/ \E arg \in {L12} : RequestCall(arg)
    \/ Tick
    \/ LoopStart
    \/ LoopStop

SpecWatch == InitWatch /\ [][NextWatch]_vars

(***************************************************************************)
(* Websocket endpoints and broadcast calls on the serving loop.            *)
(***************************************************************************)
InitWs ==
    /\ WsIdle
    /\ HelperIdle
    /\ BootIdle
    /\ RaceIdle
    /\ PathIdle
    /\ TplIdle
    /\ CacheIdle
    /\ WatchIdle
    /\ RouteIdle

\* the broadcast calls that are under way
Sending == {b \in Broadcasts : bc_pc[b] = "sending"}

\* a websocket joins the list while broadcasts are under way
NoteAdded(c) ==
    bc_added' = [b \in Broadcasts |->
                    IF b \in Sending THEN bc_added[b] \cup {c} ELSE bc_added[b]]

\* a websocket leaves the list, other than by the failed send of broadcast
\* call by, while broadcasts are under way
NoteRemoved(c, by) ==
    bc_removed' = [b \in Broadcasts |->
                      IF b \in Sending \ by /\ c \in Range(active_connections)
                      THEN bc_removed[b] \cup {c} ELSE bc_removed[b]]

\* reloader.connect: await websocket.accept() returns, or raises and the
\* endpoint ends
WsAccept(c, ok) ==
    /\ ws_pc[c] = "new"
    /\ ws_pc' = [ws_pc EXCEPT ![c] = IF ok THEN "accepted" ELSE "closed"]
    /\ UNCHANGED <<active_connections, bc_pc, bc_snapshot, bc_idx, bc_start,
                   bc_ok, bc_failed, bc_added, bc_removed>>
    /\ UNCHANGED <<pathVars, tplVars, cacheVars, watchVars, routeVars,
                   helperVars, bootVars, raceVars>>

\* reloader.connect: self.active_connections.append(websocket); the
\* websockets are numbered in the order in which they are appended
WsRegister(c) ==
    /\ ws_pc[c] = "accepted"
    /\ \A d \in Conns : d < c => ws_pc[d] \in {"receiving", "closed", "failed"}
    /\ active_connections' = Append(active_connections, c)
    /\ ws_pc' = [ws_pc EXCEPT ![c] = "receiving"]
    /\ NoteAdded(c)
    /\ UNCHANGED <<bc_pc, bc_snapshot, bc_idx, bc_start, bc_ok, bc_failed,
                   bc_removed>>
    /\ UNCHANGED <<pathVars, tplVars, cacheVars, watchVars, routeVars,
                   helperVars, bootVars, raceVars>>

\* websocket_endpoint: receive_text raises WebSocketDisconnect
WsDisconnect(c) ==
    /\ ws_pc[c] = "receiving"
    /\ active_connections' = disconnect(active_connections, c)
    /\ ws_pc' = [ws_pc EXCEPT ![c] = "closed"]
    /\ NoteRemoved(c, {})
    /\ UNCHANGED <<bc_pc, bc_snapshot, bc_idx, bc_start, bc_ok, bc_failed,
                   bc_added>>
    /\ UNCHANGED <<pathVars, tplVars, cacheVars, watchVars, routeVars,
                   helperVars, bootVars, raceVars>>

\* broadcast is entered: the copy of the list is taken; the calls are named
\* in the order in which they are entered
BroadcastStart(b) ==
    /\ bc_pc[b] = "idle"
    /\ b = "b2" => bc_pc["b1"] # "idle"
    /\ bc_snapshot' = [bc_snapshot EXCEPT ![b] = active_connections]
    /\ bc_start' = [bc_start EXCEPT ![b] = Range(active_connections)]
    /\ bc_idx' = [bc_idx EXCEPT ![b] = 1]
    /\ bc_pc' = [bc_pc EXCEPT ![b] = "sending"]
    /\ UNCHANGED <<active_connections, ws_pc, bc_ok, bc_failed, bc_added,
                   bc_removed>>
    /\ UNCHANGED <<pathVars, tplVars, cacheVars, watchVars, routeVars,
                   helperVars, bootVars, raceVars>>

\* one turn of the loop of broadcast: the loop ends when the list is used
\* up; otherwise send_text returns or raises, and a websocket whose send
\* raised is disconnected
BroadcastSend(b, ok) ==
    /\ bc_pc[b] = "sending"
    /\ LET list == iteration_list(bc_snapshot[b], active_connections)
       IN  IF bc_idx[b] > Len(list)
           THEN /\ ok
                /\ bc_pc' = [bc_pc EXCEPT ![b] = "done"]
                /\ bc_added' = [bc_added EXCEPT ![b] = {}]
                /\ bc_removed' = [bc_removed EXCEPT ![b] = {}]
                /\ UNCHANGED <<active_connections, bc_ok, bc_failed, bc_idx>>
           ELSE LET connection == list[bc_idx[b]]
                IN  /\ ws_pc[connection] \in {"closed", "failed"} => ~ok
                    /\ active_connections' =
                           IF ok THEN active_connections
                           ELSE disconnect(active_connections, connection)
                    /\ bc_ok' = [bc_ok EXCEPT ![b] =
                                     IF ok THEN @ \cup {connection} ELSE @]
                    /\ bc_failed' = [bc_failed EXCEPT ![b] =
                                         IF ok THEN @ ELSE @ \cup {connection}]
                    /\ bc_idx' = [bc_idx EXCEPT ![b] = @ + 1]
                    /\ IF ok THEN UNCHANGED bc_removed
                       ELSE NoteRemoved(connection, {b})
                    /\ UNCHANGED <<bc_pc, bc_added>>
    /\ UNCHANGED <<ws_pc, bc_snapshot, bc_start>>
    /\ UNCHANGED <<pathVars, tplVars, cacheVars, watchVars, routeVars,
                   helperVars, bootVars, raceVars>>

NextWs ==
    \/ \E c \in Conns, ok \in BOOLEAN : WsAccept(c, ok)
    \/ \E c \in Conns : WsRegister(c)
    \/ \E c \in Conns : WsDisconnect(c)
    \/ \E b \in Broadcasts : BroadcastStart(b)
    \/ \E b \in Broadcasts, ok \in BOOLEAN : BroadcastSend(b, ok)

SpecWs == InitWs /\ [][NextWs]_vars

(***************************************************************************)
(* The same endpoints and broadcast calls, with receive calls that end in  *)
(* an error other than the disconnect.                                     *)
(***************************************************************************)
\* websocket_endpoint: receive_text raises something that is not a
\* WebSocketDisconnect (the KeyError of a binary frame, the cancellation of
\* the task); no except clause takes it and the endpoint ends
WsReceiveError(c) ==
    /\ ws_pc[c] = "receiving"
    /\ ws_pc' = [ws_pc EXCEPT ![c] = "failed"]
    /\ UNCHANGED <<active_connections, bc_pc, bc_snapshot, bc_idx, bc_start,
                   bc_ok, bc_failed, bc_added, bc_removed>>
    /\ UNCHANGED <<pathVars, tplVars, cacheVars, watchVars, routeVars,
                   helperVars, bootVars, raceVars>>

NextEndpoint ==
    \/ \E c \in Conns, ok \in BOOLEAN : WsAccept(c, ok)
    \/ \E c \in Conns : WsRegister(c)
    \/ \E c \in Conns : WsDisconnect(c)
    \/ \E c \in Conns : WsReceiveError(c)
    \/ \E b \in Broadcasts : BroadcastStart(b)
    \/ \E b \in Broadcasts, ok \in BOOLEAN : BroadcastSend(b, ok)

SpecEndpoint == InitWs /\ [][NextEndpoint]_vars

(***************************************************************************)
(* Requests to the catch-all route over every content tree and template    *)
(* directory of the model.                                                 *)
(***************************************************************************)
InitRoute ==
    /\ content_tree \in ContentTrees
    /\ \E ts \in TemplateStates : templates = ts.ok /\ broken = ts.broken
    /\ full_path = <<>>
    /\ response = NoResponse
    /\ nrequests = 0
    /\ path_str = <<>>
    /\ is_index_file = FALSE
    /\ template_out = <<>>
    /\ PathIdle
    /\ CacheIdle
    /\ WatchIdle
    /\ WsIdle
    /\ HelperIdle
    /\ BootIdle
    /\ RaceIdle

\* GET /{url}
Request(url) ==
    /\ nrequests < MaxRequests
    /\ LET r == catch_all(cache, templates, broken, content_tree, links, url)
       IN  /\ response' = r.response
           /\ cache' = r.cache
    /\ full_path' = url
    /\ nrequests' = nrequests + 1
    /\ UNCHANGED <<content_tree, broken, hist, ncalls, tplVars, pathVars,
                   watchVars, wsVars, helperVars, bootVars, raceVars>>

\* the request paths of the model
Urls == {u \in UrlForms : Len(u) <= MaxUrlLen /\ Range(u) \subseteq RouteChars}

NextRoute == \E url \in Urls : Request(url)

SpecRoute == InitRoute /\ [][NextRoute]_vars

(***************************************************************************)
(* get_directory_navigation applied to the folders of small content trees  *)
(* that hold hidden files, index files and directories with and without an *)
(* index file.                                                             *)
(***************************************************************************)
NavFiles ==
    {Append(ContentDir, DotDraft), RootIndexFile,
     Append(ContentDir, <<"my-story">> \o Md), PostsFile}

NavTrees ==
    { [dirs |-> {ContentDir} \cup d,
       files |-> f \cup {Append(x, IndexMd) : x \in i}
                   \cup (IF PostsDir \in d THEN g ELSE {}),
       unreadable |-> {}] :
          d \in SUBSET {PostsDir, MyStoryDir}, i \in SUBSET {PostsDir, MyStoryDir},
          f \in SUBSET NavFiles, g \in SUBSET {StoryFile} }

NavUrls == {<<"/">>, <<"/", "posts">>, <<"/", "my-story">>,
            <<"/", "posts", "/", "my-story">>}

InitNav ==
    /\ content_tree \in {t \in NavTrees :
                             \A x \in t.files : SubSeq(x, 1, Len(x) - 1) \in t.dirs}
    /\ listed_folder \in {ContentDir, PostsDir}
    /\ page_url \in NavUrls
    /\ list_error \in BOOLEAN
    /\ nav_out = NotCalled
    /\ crumbs_url = <<>>
    /\ crumbs_out = NotCalled
    /\ broken = {}
    /\ full_path = <<>>
    /\ response = NoResponse
    /\ nrequests = 0
    /\ PathIdle
    /\ TplIdle
    /\ CacheIdle
    /\ WatchIdle
    /\ WsIdle
    /\ BootIdle
    /\ RaceIdle

CallNavigation ==
    /\ nav_out = NotCalled
    /\ nav_out' = get_directory_navigation(content_tree, list_error, listed_folder,
                                             page_url, ContentDir)
    /\ UNCHANGED <<listed_folder, page_url, list_error, crumbs_url, crumbs_out>>
    /\ UNCHANGED <<pathVars, tplVars, cacheVars, watchVars, wsVars, routeVars,
                   bootVars, raceVars>>

NextNav == CallNavigation

SpecNav == InitNav /\ [][NextNav]_vars

(***************************************************************************)
(* get_breadcrumbs applied to every bounded URL.                           *)
(***************************************************************************)
CrumbChars == {"/", "posts", "stories", "my-story"}

InitCrumbs ==
    /\ crumbs_url \in StrOver(CrumbChars, MaxCrumbLen)
    /\ crumbs_out = NotCalled
    /\ listed_folder = ContentDir
    /\ page_url = <<"/">>
    /\ list_error = FALSE
    /\ nav_out = NotCalled
    /\ PathIdle
    /\ TplIdle
    /\ CacheIdle
    /\ WatchIdle
    /\ WsIdle
    /\ RouteIdle
    /\ BootIdle
    /\ RaceIdle

CallBreadcrumbs ==
    /\ crumbs_out = NotCalled
    /\ crumbs_out' = get_breadcrumbs(crumbs_url)
    /\ UNCHANGED <<listed_folder, page_url, list_error, nav_out, crumbs_url>>
    /\ UNCHANGED <<pathVars, tplVars, cacheVars, watchVars, wsVars, routeVars,
                   bootVars, raceVars>>

NextCrumbs == CallBreadcrumbs

SpecCrumbs == InitCrumbs /\ [][NextCrumbs]_vars

(***************************************************************************)
(* init_cms, statement by statement, over every configuration.  A field is *)
(* valid or invalid; the directories may also be given as strings, which   *)
(* the validation accepts and resolves for itself while init_cms goes on   *)
(* with the values it was given.                                           *)
(***************************************************************************)
InitBoot ==
    /\ boot_config \in {c \in [ConfigFields -> {"valid", "invalid", "str"}] :
                             \A f \in ConfigFields : c[f] = "str" => f = "dirs"}
    /\ boot_pc = "start"
    /\ app_state = FALSE
    /\ middleware = FALSE
    /\ watched = {}
    /\ routes = FALSE
    /\ PathIdle
    /\ TplIdle
    /\ CacheIdle
    /\ WatchIdle
    /\ WsIdle
    /\ RouteIdle
    /\ HelperIdle
    /\ RaceIdle

BootFrame ==
    UNCHANGED <<pathVars, tplVars, cacheVars, watchVars, wsVars, routeVars,
                helperVars, raceVars>>

\* CMSConfig(...) returns or raises
Validate ==
    /\ boot_pc = "start"
    /\ boot_pc' = after_validation(CMSConfig(boot_config))
    /\ UNCHANGED <<boot_config, app_state, middleware, watched, routes>>
    /\ BootFrame

\* app.state.site_code = site_code; app.state.site_data = site_data
StoreState ==
    /\ boot_pc = "validated"
    /\ app_state' = TRUE
    /\ boot_pc' = "stored"
    /\ UNCHANGED <<boot_config, middleware, watched, routes>>
    /\ BootFrame

\* inject_script_middleware(app, host, port)
InstallMiddleware ==
    /\ boot_pc = "stored"
    /\ middleware' = TRUE
    /\ boot_pc' = "installed"
    /\ UNCHANGED <<boot_config, app_state, watched, routes>>
    /\ BootFrame

\* dirs = {k: p.resolve() for k, p in dirs.items()}: a str has no resolve
ResolveDirs ==
    /\ boot_pc = "installed"
    /\ boot_pc' = IF boot_config["dirs"] = "str" THEN "raised" ELSE "resolved"
    /\ UNCHANGED <<boot_config, app_state, middleware, watched, routes>>
    /\ BootFrame

\* the templates, the filters, the loop and the reloader are set up
CreateTemplates ==
    /\ boot_pc = "resolved"
    /\ boot_pc' = "templates"
    /\ UNCHANGED <<boot_config, app_state, middleware, watched, routes>>
    /\ BootFrame

\* for d in dirs: start_watching(dirs[d], on_change_callback)
StartWatching(d) ==
    /\ boot_pc = "templates"
    /\ WatchedDirs[Cardinality(watched) + 1] = d
    /\ watched' = watched \cup {d}
    /\ boot_pc' = IF Cardinality(watched) + 1 = Len(WatchedDirs)
                  THEN "watching" ELSE "templates"
    /\ UNCHANGED <<boot_config, app_state, middleware, routes>>
    /\ BootFrame

\* init_routes(...); return app
InitRoutes ==
    /\ boot_pc = "watching"
    /\ routes' = TRUE
    /\ boot_pc' = "returned"
    /\ UNCHANGED <<boot_config, app_state, middleware, watched>>
    /\ BootFrame

NextBoot ==
    \/ Validate
    \/ StoreState
    \/ InstallMiddleware
    \/ ResolveDirs
    \/ CreateTemplates
    \/ \E d \in {"content", "templates"} : StartWatching(d)
    \/ InitRoutes

SpecBoot == InitBoot /\ [][NextBoot]_vars

(***************************************************************************)
(* A call through the wrapper of cache_fn on the serving loop, statement   *)
(* by statement, against clear_cache on the watcher thread.  The threads   *)
(* share the cache without a lock; cache.clear() empties a TTLCache entry  *)
(* by entry, oldest first, and the other thread may run between any two    *)
(* of its steps.                                                           *)
(***************************************************************************)
RaceArgs == {L12, N12}
KeyError == <<"KeyError", 0>>

InitRace ==
    /\ RaceIdle
    /\ CacheIdle
    /\ PathIdle
    /\ TplIdle
    /\ WatchIdle
    /\ WsIdle
    /\ RouteIdle
    /\ HelperIdle
    /\ BootIdle

RaceFrame ==
    UNCHANGED <<hist, pathVars, tplVars, watchVars, wsVars, routeVars,
                helperVars, bootVars>>

\* key = hashkey(...); if key in cache:
WrapperCheck(arg) ==
    /\ w_pc = "idle"
    /\ ncalls < MaxCalls
    /\ w_key' = hashkey(<<arg>>)
    /\ w_pc' = IF InCache(cache, hashkey(<<arg>>)) THEN "hit" ELSE "miss"
    /\ w_out' = <<>>
    /\ ncalls' = ncalls + 1
    /\ UNCHANGED <<cache, clear_pc>>
    /\ RaceFrame

\* return cache[key]: the entry is read, or is gone and KeyError is raised
WrapperRead ==
    /\ w_pc = "hit"
    /\ IF InCache(cache, w_key)
       THEN w_out' = CacheGet(cache, w_key) /\ w_pc' = "returned"
       ELSE w_out' = KeyError /\ w_pc' = "failed"
    /\ UNCHANGED <<cache, ncalls, w_key, clear_pc>>
    /\ RaceFrame

\* result = func(*args, **kwargs)
WrapperCall(ver) ==
    /\ w_pc = "miss"
    /\ w_out' = ResultOf("f", ver)
    /\ w_pc' = "computed"
    /\ UNCHANGED <<cache, ncalls, w_key, clear_pc>>
    /\ RaceFrame

\* cache[key] = result; return result
WrapperStore ==
    /\ w_pc = "computed"
    /\ cache' = CacheSet(cache, w_key, w_out)
    /\ w_pc' = "returned"
    /\ UNCHANGED <<ncalls, w_key, w_out, clear_pc>>
    /\ RaceFrame

\* the caller goes on, with the value or with the exception
WrapperDone ==
    /\ w_pc \in {"returned", "failed"}
    /\ w_pc' = "idle"
    /\ w_key' = <<>>
    /\ w_out' = <<>>
    /\ UNCHANGED <<cache, ncalls, clear_pc>>
    /\ RaceFrame

\* clear_cache is entered on the watcher thread
ClearStart ==
    /\ clear_pc = "idle"
    /\ cache # <<>>
    /\ clear_pc' = "clearing"
    /\ UNCHANGED <<cache, ncalls, w_pc, w_key, w_out>>
    /\ RaceFrame

\* cache.clear(): the oldest entry is taken out, or none is left and the
\* clear returns
ClearStep ==
    /\ clear_pc = "clearing"
    /\ IF cache = <<>>
       THEN clear_pc' = "idle" /\ UNCHANGED cache
       ELSE cache' = Tail(cache) /\ UNCHANGED clear_pc
    /\ UNCHANGED <<ncalls, w_pc, w_key, w_out>>
    /\ RaceFrame

NextRace ==
    \/ \E arg \in RaceArgs : WrapperCheck(arg)
    \/ WrapperRead
    \/ \E ver \in Versions : WrapperCall(ver)
    \/ WrapperStore
    \/ WrapperDone
    \/ ClearStart
    \/ ClearStep

SpecRace == InitRace /\ [][NextRace]_vars

(***************************************************************************)
(* Claims about the secure path resolver (checked under SpecPath).         *)
(***************************************************************************)
HasNul(s) == NUL \in {s[i] : i \in 1..Len(s)}

\* a canonical path: no empty, "." or ".." segment, and no symlink on the way
Canonical(ls, p) ==
    /\ \A i \in 1..Len(p) : p[i] \notin {<<>>, Dot, DotDot}
    /\ \A i \in 1..Len(p) : ~IsLink(ls, SubSeq(p, 1, i))

\* C1: get_secure_target either raises ValueError or returns a canonical path
\* that is the root or a descendant of it, never a path outside the root; an
\* input with a null byte is always rejected.
C1_Confined ==
    secure_out # NotCalled =>
        /\ secure_out.kind \in {"ValueError", "ok"}
        /\ secure_out.kind = "ok" =>
               /\ IsPrefix(relative_to_path, secure_out.path)
               /\ Canonical(links, secure_out.path)
        /\ HasNul(user_path) => secure_out.kind = "ValueError"

\* a path with a leading slash and a ".." segment is resolved through a
\* symlink and returned inside the root
C1_Witness ==
    /\ secure_out.kind = "ok"
    /\ user_path # <<>> /\ Head(user_path) = "/"
    /\ DotDot \in {Split(user_path)[i] : i \in 1..Len(Split(user_path))}
    /\ IsLink(links, Append(relative_to_path, <<"a">>))
    /\ Split(Strip(user_path))[1] = <<"a">>

\* the input read as an absolute path (the way the caller wrote it) that
\* names a place below "/" and outside the root
AbsoluteOutside(ls, s, root) ==
    /\ s # <<>> /\ Head(s) = "/"
    /\ Filter(Split(s), {<<>>, Dot}) # <<>>
    /\ ~IsRelativeTo(Resolve(ls, Filter(Split(s), {<<>>, Dot})), root)

\* a ".." segment that a slash follows
HasDotDotSlash(s) ==
    \E i \in 1..(Len(Split(s)) - 1) : Split(s)[i] = DotDot

\* C10 as stated: every input with a "../" sequence, with a null byte, or that
\* is an absolute path outside the root is rejected.
C10_AsStated ==
    secure_out # NotCalled =>
        ((\/ HasDotDotSlash(user_path)
          \/ HasNul(user_path)
          \/ AbsoluteOutside(links, user_path, relative_to_path))
         => secure_out.kind = "ValueError")

\* where the input leads when it is taken relative to the root
Lands(ls, s, root) == Resolve(ls, root \o Filter(Split(Strip(s)), {<<>>, Dot}))

\* C10 (amended): every input with a null byte is rejected, and so is every
\* input that, taken relative to the root with its outer slashes stripped,
\* resolves to a place outside the root; every other input is rejected only
\* when the platform refuses the path.
C10_Rejects ==
    secure_out # NotCalled =>
        /\ HasNul(user_path) => secure_out.kind = "ValueError"
        /\ ~IsRelativeTo(Lands(links, user_path, relative_to_path), relative_to_path)
               => secure_out.kind = "ValueError"
        /\ (/\ ~HasNul(user_path)
            /\ ~os_error
            /\ IsRelativeTo(Lands(links, user_path, relative_to_path), relative_to_path))
               => secure_out.kind = "ok"

\* an input that climbs out of the root with "../" is rejected
C10_Witness ==
    /\ secure_out.kind = "ValueError"
    /\ ~HasNul(user_path)
    /\ ~os_error
    /\ links = {}
    /\ HasDotDotSlash(user_path)

(***************************************************************************)
(* Claims about the template search (checked under SpecTpl).               *)
(***************************************************************************)
PartsOf(path) == Filter(Split(Strip(path)), {<<>>})

\* the section template of the first k segments
SectionTemplate(parts, k) == JoinSlash(SubSeq(parts, 1, k)) \o Html

\* the item template of level k: the singular of segment k under its parents
ItemTemplate(parts, k) ==
    JoinSlash(Append(SubSeq(parts, 1, k - 1), singularize(parts[k]))) \o Html

\* the candidates of the folder levels k, k-1, ..., 1 in the order of the claim
RECURSIVE LevelCandidates(_, _, _)
LevelCandidates(parts, k, is_index) ==
    IF k = 0 THEN <<>>
    ELSE (IF is_index THEN <<>> ELSE <<ItemTemplate(parts, k)>>)
         \o <<SectionTemplate(parts, k)>>
         \o LevelCandidates(parts, k - 1, is_index)

\* the fixed candidate order of the claim
CandidateOrder(parts, is_index) ==
    LET n == Len(parts)
        levels == IF is_index \/ n = 0 THEN n ELSE n - 1
    IN  (IF n = 0 THEN <<IndexHtml>> ELSE <<>>)
        \o (IF is_index THEN <<>> ELSE <<SectionTemplate(parts, n)>>)
        \o LevelCandidates(parts, levels, is_index)

\* the first candidate that exists, page.html when none does
FirstExisting(tpls, cands) ==
    IF \E i \in 1..Len(cands) : cands[i] \in tpls
    THEN cands[CHOOSE i \in 1..Len(cands) :
                   /\ cands[i] \in tpls
                   /\ \A j \in 1..(i - 1) : cands[j] \notin tpls]
    ELSE PageHtml

PostsMyStory == <<"posts", "/", "my-story">>

\* C8: find_best_template returns the first existing template of the fixed
\* candidate order (index.html for no segments, the exact path for non-index
\* renders, then per level item before section), page.html when none exists;
\* posts/my-story resolves to post.html, else posts.html, else page.html.
C8_CandidateOrder ==
    template_out # <<>> =>
        /\ template_out =
               FirstExisting(templates, CandidateOrder(PartsOf(path_str), is_index_file))
        /\ (/\ PartsOf(path_str) = <<<<"posts">>, <<"my-story">>>>
            /\ ~is_index_file
            /\ (PostsMyStory \o Html) \notin templates)
           => template_out =
                  IF (<<"post">> \o Html) \in templates THEN <<"post">> \o Html
                  ELSE IF (<<"posts">> \o Html) \in templates THEN <<"posts">> \o Html
                  ELSE PageHtml

\* posts/my-story with post.html and posts.html both present resolves to
\* post.html
C8_Witness ==
    /\ path_str = PostsMyStory
    /\ ~is_index_file
    /\ (<<"post">> \o Html) \in templates
    /\ (<<"posts">> \o Html) \in templates
    /\ template_out = <<"post">> \o Html

\* C9: an index render returns the section template of the directory or of
\* an ancestor, index.html for the site root, or page.html, and so never an
\* item template or an exact-file template that is not one of those.
C9_IndexNeverItem ==
    (template_out # <<>> /\ is_index_file) =>
        LET parts == PartsOf(path_str)
        IN  \/ template_out = PageHtml
            \/ Len(parts) = 0 /\ template_out = IndexHtml
            \/ \E k \in 1..Len(parts) : template_out = SectionTemplate(parts, k)

\* an index render of posts/posts with the item template posts/post.html
\* present, which is passed over
C9_Witness ==
    /\ is_index_file
    /\ PartsOf(path_str) = <<<<"posts">>, <<"posts">>>>
    /\ (<<"posts", "/", "post">> \o Html) \in templates
    /\ (<<"post">> \o Html) \in templates
    /\ template_out \in {PageHtml, <<"posts">> \o Html}

(***************************************************************************)
(* Claims about the cache layer (checked under SpecCache).                 *)
(***************************************************************************)
\* structural equality of two arguments: scalars are equal, sequences have
\* equal elements in the same order, mappings have the same keys with equal
\* values, whatever the order of the keys
RECURSIVE StructEq(_, _)
StructEq(a, b) ==
    /\ a.t = b.t
    /\ IF a.t = "scalar" THEN a.n = b.n
       ELSE IF a.t = "dict"
       THEN /\ {a.items[i].k : i \in 1..Len(a.items)}
                   = {b.items[j].k : j \in 1..Len(b.items)}
            /\ \A i \in 1..Len(a.items), j \in 1..Len(b.items) :
                   a.items[i].k = b.items[j].k
                       => StructEq(a.items[i].v, b.items[j].v)
       ELSE /\ Len(a.items) = Len(b.items)
            /\ \A i \in 1..Len(a.items) : StructEq(a.items[i].v, b.items[i].v)

IsCall(x) == x.fn \in Fns
SameCall(x, y) == IsCall(x) /\ IsCall(y) /\ x.fn = y.fn /\ StructEq(x.arg, y.arg)

\* no clear and no expiry between the calls at i and j
NothingDropped(i, j) == \A k \in i..j : IsCall(hist[k])

\* the calls at i < j are two successive calls of one function with
\* structurally equal arguments
Successive(i, j) ==
    /\ i < j
    /\ SameCall(hist[i], hist[j])
    /\ \A k \in (i + 1)..(j - 1) : ~SameCall(hist[i], hist[k])

\* the call at i is the first of its function and arguments since the last
\* clear or expiry (or since the start)
FirstSinceDrop(i) ==
    \A k \in 1..(i - 1) : SameCall(hist[k], hist[i]) => ~NothingDropped(k, i)

\* C3: of two calls of a wrapped function with structurally equal arguments,
\* with no clear and no expiry between them, exactly the first runs the
\* function and the second returns what the first stored; after a clear the
\* next call with those arguments runs the function again.
C3_AsStated ==
    \A i, j \in 1..Len(hist) :
        Successive(i, j) =>
            /\ (NothingDropped(i, j) /\ FirstSinceDrop(i)) =>
                   /\ hist[i].invoked
                   /\ ~hist[j].invoked
                   /\ hist[j].ret = hist[i].ret
            /\ (\E k \in i..j : hist[k].fn = "clear") => hist[j].invoked

(***************************************************************************)
(* Claims about the on-change callback (checked under SpecWatch).          *)
(***************************************************************************)
\* the step in which watcher w finishes handling its event
Finishes(w) == cb_pc[w] = "cleared" /\ cb_pc'[w] = "idle"

\* the step in which watcher w takes up an event
TakesUp(w) == cb_pc[w] = "idle" /\ cb_pc'[w] = "cleared"

\* C4: once the on-change callback has finished handling a file-change
\* event, the main cache holds no entry that was stored before that event.
C4_AsStated ==
    [][\A w \in Watchers : Finishes(w) => stale[w] = {}]_vars

\* the notification for pair opens a new window: none has cleared before,
\* or the last one that cleared is 5 seconds or more ago
OpensWindow(pair) ==
    \/ last_trigger[pair] = -1
    \/ now - last_trigger[pair] >= DebounceTTL

\* C5: for a (path, event type) pair, the notifications within 5 seconds of
\* the one that cleared trigger no further clear, and the first notification
\* after the window triggers exactly one new clear of the main cache (with
\* no more than 100 distinct pairs).
C5_Debounce ==
    [][\A w \in Watchers : \A pair \in PairsOf(w) :
          (OnChangeClear(w, pair) /\ Cardinality(Pairs) <= DebounceMaxSize) =>
              IF OpensWindow(pair)
              THEN clears' = clears + 1 /\ cache' = <<>>
              ELSE clears' = clears /\ cache' = cache]_vars

\* three notifications for one pair: the first cleared, one was suppressed,
\* and one after the window cleared again
C5_Witness ==
    /\ nevents = 3
    /\ clears = 2
    /\ last_trigger[<<"content/a.md", "modified">>] >= DebounceTTL
    /\ \A pair \in Pairs \ {<<"content/a.md", "modified">>} : last_trigger[pair] = -1

\* C7: the callback first invokes the debounced clear and only then decides
\* on the broadcast; it schedules exactly one broadcast if the loop is
\* running at that moment, whether or not the clear was suppressed, and none
\* if it is not, while the debounced clear is performed all the same.
C7_ClearThenBroadcast ==
    [][/\ scheduled' # scheduled => \E w \in Watchers : Finishes(w)
       /\ \A w \in Watchers :
              Finishes(w) =>
                  scheduled' = IF loop_state = "running" THEN scheduled + 1
                               ELSE scheduled
       /\ \A w \in Watchers :
              TakesUp(w) =>
                  /\ scheduled' = scheduled
                  /\ \E pair \in PairsOf(w) :
                         /\ Live(debounce', pair, now)
                         /\ ~Live(debounce, pair, now) =>
                                cache' = <<>> /\ clears' = clears + 1]_vars

\* two broadcasts were scheduled while the loop ran, one of them for a
\* suppressed clear or the later event cleared with the loop closed and
\* nothing was scheduled for it
C7_Witness ==
    /\ nevents = 3
    /\ clears = 2
    /\ scheduled = 2
    /\ loop_state = "closed"
    /\ \A w \in Watchers : cb_pc[w] = "idle"

(***************************************************************************)
(* Claims about the live-reload fan-out (checked under SpecWs).            *)
(***************************************************************************)
\* C6: a broadcast call sends to every connection that is in the active set
\* when it starts, one failed send not stopping the others; a connection
\* whose send fails is removed from the active set, a send that succeeds
\* leaves the active set as it is, and a later broadcast again reaches every
\* connection that remained.
C6_FanOut ==
    [][\A b \in Broadcasts :
          /\ bc_pc'[b] = "done" => bc_ok'[b] \cup bc_failed'[b] = bc_start'[b]
          /\ \A c \in bc_failed'[b] \ bc_failed[b] :
                 c \notin Range(active_connections')
          /\ bc_ok'[b] # bc_ok[b] => active_connections' = active_connections
          /\ (bc_pc[b] = "idle" /\ bc_pc'[b] # "idle") =>
                 Range(bc_snapshot'[b]) = Range(active_connections)]_vars

\* three connections were active when b1 started, one send of b1 failed, and
\* b2, started on the two that remained, reached both of them
C6_Witness ==
    /\ bc_pc["b1"] = "done"
    /\ bc_pc["b2"] = "done"
    /\ Cardinality(bc_start["b1"]) = 3
    /\ Cardinality(bc_failed["b1"]) = 1
    /\ bc_start["b2"] = bc_start["b1"] \ bc_failed["b1"]
    /\ bc_ok["b2"] = bc_start["b2"]
    /\ Range(active_connections) = bc_start["b2"]

(***************************************************************************)
(* Claims about the catch-all route (checked under SpecRoute).             *)
(***************************************************************************)
\* C2: every request ends in a 404 response rendered from the 404 template
\* or in a rendered page with the success status, and in nothing else; read
\* here for the template directories that hold the three required templates.
C2_AsStated ==
    (nrequests > 0 /\ RequiredTemplates \subseteq templates) =>
        \/ response.status = "404" /\ response.template = NotFoundHtml
        \/ response.status = "200"

(***************************************************************************)
(* Claims about the cache key (checked under SpecCache).                   *)
(***************************************************************************)
\* C11: a call of one wrapped function never returns a value that a call of
\* another wrapped function stored: what a call of fn returns is a result
\* of fn.
C11_AsStated ==
    \A i \in 1..Len(hist) : IsCall(hist[i]) => hist[i].ret[1] = hist[i].fn

(***************************************************************************)
(* Claims about the content pipeline of the route (checked under           *)
(* SpecRoute).                                                             *)
(***************************************************************************)
\* C12: the document the cache holds for a file is the document as
\* parse_markdown_file produced it, before and after every request.
C12_AsStated ==
    \A i \in 1..Len(cache) :
        cache[i].val.kind = "document" =>
            cache[i].val = parse_markdown_file(content_tree, cache[i].val.path)

\* the URL path of a file or directory of the content tree
UrlOf(target) == StripMd(JoinSlash(SubSeq(target, Len(ContentDir) + 1, Len(target))))

\* the directory that carries the name of a markdown file
Beside(file) ==
    Append(SubSeq(file, 1, Len(file) - 1), StripMd(file[Len(file)]))

\* a finished request for the URL path of target
RequestedFor(target) == nrequests > 0 /\ Strip(full_path) = UrlOf(target)

ServedFile(file, flag) ==
    response.file = file /\ response.is_index = flag /\ response.status # "404"

\* C13 as the specification states it: every file <name>.md other than
\* index.md is served, as a non-index render, for its URL path; every
\* directory that holds index.md is served that file, as an index render,
\* for the directory's URL; the root serves the top-level index.md.
C13_AsStated ==
    /\ \A f \in content_tree.files :
           (f[Len(f)] # IndexMd /\ RequestedFor(f)) => ServedFile(f, FALSE)
    /\ \A d \in content_tree.dirs \ {ContentDir} :
           (Append(d, IndexMd) \in content_tree.files /\ RequestedFor(d))
               => ServedFile(Append(d, IndexMd), TRUE)
    /\ (RootIndexFile \in content_tree.files /\ RequestedFor(ContentDir))
           => response.file = RootIndexFile /\ response.status # "404"

\* C13: the mapping holds for the files that can be read and that have no
\* directory of their own name beside them: such a file <name>.md other than
\* index.md is served, as a non-index render, for its URL path; a directory
\* that holds a readable index.md is served that file, as an index render,
\* for the directory's URL; the root serves the top-level index.md as a
\* non-index render.
C13_UrlToFile ==
    /\ \A f \in content_tree.files \ content_tree.unreadable :
           (f[Len(f)] # IndexMd /\ Beside(f) \notin content_tree.dirs
                /\ RequestedFor(f))
               => ServedFile(f, FALSE)
    /\ \A d \in content_tree.dirs \ {ContentDir} :
           (Append(d, IndexMd) \in content_tree.files \ content_tree.unreadable
                /\ RequestedFor(d))
               => ServedFile(Append(d, IndexMd), TRUE)
    /\ (RootIndexFile \in content_tree.files \ content_tree.unreadable
            /\ Append(ContentDir, <<"index">>) \notin content_tree.dirs
            /\ RequestedFor(ContentDir))
           => ServedFile(RootIndexFile, FALSE)

\* a second request has served posts/my-story.md for posts/my-story, where
\* posts.md lies beside the directory posts
C13_Witness ==
    /\ nrequests = 2
    /\ RequestedFor(StoryFile)
    /\ PostsFile \in content_tree.files
    /\ ServedFile(StoryFile, FALSE)
    /\ response.status = "200"

\* the template directory holds the required templates and none is broken
TemplatesSound == RequiredTemplates \subseteq templates /\ broken = {}

\* the last request went to this file, as the URL mapping has it
Went(file) ==
    /\ file \in content_tree.files \ content_tree.unreadable
    /\ \/ /\ file[Len(file)] # IndexMd
          /\ Beside(file) \notin content_tree.dirs
          /\ RequestedFor(file)
       \/ /\ file[Len(file)] = IndexMd
          /\ Len(file) > Len(ContentDir) + 1
          /\ RequestedFor(SubSeq(file, 1, Len(file) - 1))

\* what template_render_content is to return for a string
Shown(content) == IF Fails(content) THEN content ELSE Render(content)

C15_AsStated ==
    \A c \in Conns :
        /\ c \in Range(active_connections) => ws_pc[c] = "receiving"
        /\ ws_pc[c] = "closed" => c \notin Range(active_connections)

\* there are no two entries for one websocket
NoDuplicates(list) ==
    \A i, j \in 1..Len(list) : list[i] = list[j] => i = j

\* C19: while a broadcast is under way, and so when it completes, the
\* active list holds each websocket once, and holds exactly the websockets
\* of the broadcast's start and those appended since, less those removed
\* since by a disconnect or by a failed send; the broadcast sends only to the
\* websockets of its copy, and has sent to all of them when it completes.
C19_Interleaving ==
    /\ NoDuplicates(active_connections)
    /\ \A b \in Broadcasts :
           /\ bc_pc[b] = "sending" =>
                  /\ Range(active_connections) =
                         (bc_start[b] \cup bc_added[b])
                             \ (bc_removed[b] \cup bc_failed[b])
                  /\ bc_ok[b] \cup bc_failed[b] =
                         Range(SubSeq(bc_snapshot[b], 1, bc_idx[b] - 1))
                  /\ bc_idx[b] <= Len(bc_snapshot[b]) + 1
           /\ bc_pc[b] = "done" =>
                  /\ bc_ok[b] \cap bc_failed[b] = {}
                  /\ Range(active_connections) \cap bc_failed[b] = {}

\* b1 has walked its whole copy and is about to complete; meanwhile a send
\* of it failed, a websocket of its copy disconnected, and a websocket was
\* appended
C19_Witness ==
    /\ bc_pc["b1"] = "sending"
    /\ bc_idx["b1"] > Len(bc_snapshot["b1"])
    /\ bc_failed["b1"] # {}
    /\ bc_added["b1"] # {}
    /\ bc_removed["b1"] \cap bc_start["b1"] # {}
    /\ Range(active_connections) # {}

(***************************************************************************)
(* Claims about the navigation (checked under SpecNav) and about the       *)
(* breadcrumbs (checked under SpecCrumbs).                                 *)
(***************************************************************************)
\* the names of the entries of the listed folder
ChildNames ==
    {n \in {NameOrder[i] : i \in 1..Len(NameOrder)} :
        Append(listed_folder, n) \in content_tree.dirs \cup content_tree.files}

ChildIsDir(n) == Append(listed_folder, n) \in content_tree.dirs

\* a child the navigation is to show
Eligible(n) ==
    /\ n[1] # "."
    /\ n # IndexMd
    /\ ChildIsDir(n) =>
           Append(Append(listed_folder, n), IndexMd) \in content_tree.files

\* the position of a name among the names in the order of their strings
Rank(n) == CHOOSE i \in 1..Len(NameOrder) : NameOrder[i] = n

\* the item of a child
ItemOf(item, n) ==
    /\ item.url = <<"/">> \o UrlOf(Append(listed_folder, n))
    /\ item.is_dir = ChildIsDir(n)

ChildOf(item) == CHOOSE n \in ChildNames : ItemOf(item, n)

NavContract ==
    LET items == nav_out.items
        shown == {n \in ChildNames : Eligible(n)}
    IN  /\ Len(items) = Cardinality(shown)
        /\ \A n \in shown : \E i \in 1..Len(items) : ItemOf(items[i], n)
        /\ \A i \in 1..Len(items) : \E n \in shown : ItemOf(items[i], n)
        /\ \A i, j \in 1..Len(items) :
               i < j =>
                   \/ items[i].is_dir /\ ~items[j].is_dir
                   \/ /\ items[i].is_dir = items[j].is_dir
                      /\ Rank(ChildOf(items[i])) < Rank(ChildOf(items[j]))
        /\ \A i \in 1..Len(items) :
               items[i].is_active <=> (items[i].url = page_url)

\* C16 as the specification states it: the navigation of any folder has one
\* item for exactly the children that are no dotfile, not index.md and no
\* directory without index.md, directories first and by name within each
\* group, and an item is active exactly when its URL is the current URL.
C16_AsStated == nav_out.kind = "navigation" => NavContract

\* C16: the same, for a folder whose listing raises no OSError.
C16_Navigation ==
    (nav_out.kind = "navigation" /\ ~list_error) => NavContract

\* the content directory with a hidden file, index.md, a directory without
\* index.md, a directory with one and two pages has been listed: the
\* directory comes first, the pages follow by name, one item is active
C16_Witness ==
    /\ nav_out.kind = "navigation"
    /\ ~list_error
    /\ listed_folder = ContentDir
    /\ {DotDraft, IndexMd, <<"my-story">>, <<"my-story">> \o Md, <<"posts">>,
        <<"posts">> \o Md} = ChildNames
    /\ ~Eligible(<<"my-story">>)
    /\ Len(nav_out.items) = 3
    /\ nav_out.items[1].is_dir
    /\ nav_out.items[1].is_active
    /\ nav_out.items[3].is_active
    /\ ~nav_out.items[2].is_active

\* the maximal runs of words between slashes: the non-empty segments
SegmentStarts(url) ==
    {i \in 1..Len(url) : url[i] # "/" /\ (i = 1 \/ url[i - 1] = "/")}

WithoutSlashes(url) == SelectSeq(url, LAMBDA ch : ch # "/")

StoryUrl == <<"/", "posts", "/", "stories", "/", "my-story">>

\* C17: the breadcrumbs of any URL start with Home at "/", followed by one
\* entry per non-empty segment in order; the URL of each is the URL before
\* it, a slash where one is needed, and its segment; for
\* /posts/stories/my-story they are Home, Posts, Stories and My Story.
C17_Breadcrumbs ==
    crumbs_out.kind = "breadcrumbs" =>
        LET crumbs == crumbs_out.crumbs
            words == WithoutSlashes(crumbs_url)
        IN  /\ crumbs[1] = [name |-> <<"Home">>, url |-> <<"/">>]
            /\ Len(crumbs) = 1 + Cardinality(SegmentStarts(crumbs_url))
            /\ \A i \in 2..Len(crumbs) :
                   /\ crumbs[i].url[1] = "/"
                   /\ crumbs[i].url[Len(crumbs[i].url)] # "/"
                   /\ Cardinality(SegmentStarts(crumbs[i].url)) = i - 1
                   /\ ~Contains(crumbs[i].url, <<"/", "/">>)
                   /\ IsPrefix(WithoutSlashes(crumbs[i].url), words)
                   /\ IsPrefix(crumbs[i - 1].url, crumbs[i].url)
                   /\ crumbs[i].name =
                          Title(SubSeq(WithoutSlashes(crumbs[i].url),
                                       Len(WithoutSlashes(crumbs[i - 1].url)) + 1,
                                       Len(WithoutSlashes(crumbs[i].url))))
            /\ WithoutSlashes(crumbs[Len(crumbs)].url) = words
            /\ crumbs_url = StoryUrl =>
                   crumbs = <<[name |-> <<"Home">>, url |-> <<"/">>],
                              [name |-> <<"Posts">>, url |-> <<"/", "posts">>],
                              [name |-> <<"Stories">>,
                               url |-> <<"/", "posts", "/", "stories">>],
                              [name |-> <<"My Story">>, url |-> StoryUrl]>>

\* the breadcrumbs of /posts/stories/my-story have been built
C17_Witness ==
    /\ crumbs_out.kind = "breadcrumbs"
    /\ crumbs_url = StoryUrl
    /\ Len(crumbs_out.crumbs) = 4

(***************************************************************************)
(* Claims about the bootstrap (checked under SpecBoot).                    *)
(***************************************************************************)
InvalidConfig == \E f \in ConfigFields : boot_config[f] = "invalid"

\* C18: with a configuration that fails validation init_cms gets no further
\* than raising: nothing is stored on the application state, no middleware
\* is installed, no watcher is started and no route is registered; where a
\* route is registered the configuration has passed validation.
C18_FailFast ==
    /\ InvalidConfig =>
           /\ boot_pc \in {"start", "raised"}
           /\ ~app_state
           /\ ~middleware
           /\ watched = {}
           /\ ~routes
    /\ routes => CMSConfig(boot_config)

\* init_cms has raised on a configuration whose directories do not exist
C18_Witness ==
    /\ boot_pc = "raised"
    /\ boot_config["dirs"] = "invalid"
    /\ \A f \in ConfigFields \ {"dirs"} : boot_config[f] = "valid"
    /\ ~app_state

(***************************************************************************)
(* Claims about a clear during a wrapped call (checked under SpecRace).    *)
(***************************************************************************)
\* C20: whatever the interleaving of clear_cache with a call through the
\* wrapper, the call does not fail: it returns a value, the cached or a
\* freshly computed one; and a membership test that found the key is
\* followed by a read that finds it.
C20_AsStated ==
    /\ w_pc # "failed"
    /\ w_pc = "returned" => w_out \in {ResultOf("f", v) : v \in Versions}
    /\ w_pc = "hit" => InCache(cache, w_key)

(***************************************************************************)
(* Calls of wrapped functions that raise, over the shared cache.           *)
(***************************************************************************)
\* what hist records of a call that ended with the exception of the wrapped
\* function
Failure == <<"ValueError", 0>>

\* the arguments each wrapped function rejects, as get_secure_target rejects
\* a path that leaves its root: f rejects the lists, g the nested mappings
Rejected == [fn \in Fns |-> IF fn = "f" THEN {L12, L21} ELSE {N12, N21}]

\* func(*args, **kwargs): the wrapped function raises on an argument it
\* rejects and returns its result on any other
func(fn, arg, ver) == IF arg \in Rejected[fn] THEN Failure ELSE ResultOf(fn, ver)

\* a call fn(arg) through the wrapper of cache_fn: a hit returns the entry
\* without running fn; on a miss fn runs, and its exception leaves the
\* wrapper before the store
WrappedCall(fn, arg, ver) ==
    /\ ncalls < MaxCalls
    /\ LET key == hashkey(<<arg>>)
           result == func(fn, arg, ver)
       IN  IF InCache(cache, key)
           THEN /\ cache' = cache
                /\ hist' = Append(hist, [fn |-> fn, arg |-> arg, invoked |-> FALSE,
                                         ret |-> CacheGet(cache, key)])
           ELSE IF result = Failure
           THEN /\ cache' = cache
                /\ hist' = Append(hist, [fn |-> fn, arg |-> arg, invoked |-> TRUE,
                                         ret |-> Failure])
           ELSE /\ cache' = CacheSet(cache, key, result)
                /\ hist' = Append(hist, [fn |-> fn, arg |-> arg, invoked |-> TRUE,
                                         ret |-> result])
    /\ ncalls' = ncalls + 1
    /\ UNCHANGED <<pathVars, tplVars, watchVars, wsVars, routeVars,
                   helperVars, bootVars, raceVars>>

NextFail ==
    \/ \E fn \in Fns, arg \in ArgVals, ver \in Versions : WrappedCall(fn, arg, ver)
    \/ ClearCache
    \/ ExpireOldest

SpecFail == InitCache /\ [][NextFail]_vars

(***************************************************************************)
(* Claims about failures of wrapped functions (checked under SpecFail).    *)
(***************************************************************************)
\* the call recorded at i ended with the exception of the wrapped function
Raises(i) == IsCall(hist[i]) /\ hist[i].invoked /\ hist[i].ret = Failure

\* a call that raises leaves the cache as it was
RaiseLeavesCache ==
    [][(Len(hist') = Len(hist) + 1 /\ hist'[Len(hist')].ret = Failure)
           => cache' = cache]_vars

\* no entry of the cache holds a failure
OnlyResultsStored == \A i \in 1..Len(cache) : cache[i].val # Failure

\* C21: failures are never cached: only results that a wrapped function
\* returned are stored, and after a call of a wrapped function has raised,
\* every later call of that function with the same arguments runs the
\* function again and raises again instead of returning a stored value.
C21_AsStated ==
    /\ OnlyResultsStored
    /\ \A i, j \in 1..Len(hist) :
           (i < j /\ Raises(i) /\ SameCall(hist[i], hist[j])) => Raises(j)

\* the same, as long as no other wrapped function has stored a result under
\* these arguments since the call that raised
C21_OneFunction ==
    /\ OnlyResultsStored
    /\ \A i, j \in 1..Len(hist) :
           (/\ i < j
            /\ Raises(i)
            /\ SameCall(hist[i], hist[j])
            /\ \A k \in (i + 1)..(j - 1) :
                   (IsCall(hist[k]) /\ StructEq(hist[k].arg, hist[i].arg))
                       => hist[k].fn = hist[i].fn)
               => Raises(j)

\* a call has raised and a later call of the same function with the same
\* arguments has raised again
C21_RaisedTwice ==
    \E i, j \in 1..Len(hist) : i < j /\ Raises(i) /\ Raises(j) /\ SameCall(hist[i], hist[j])

====
